---- MODULE Spec2Model ----
(***************************************************************************)
(* A model of gss (src/main.go): a command line tool that keeps a list of  *)
(* SSH key pairs in ~/.gss/config.json and rewrites ~/.ssh/config and the  *)
(* Git configuration when one of them is made active.                      *)
(*                                                                         *)
(* One step of the model is one run of the process (main): load the store, *)
(* run one subcommand, and save the store when main returns normally       *)
(* (os.Exit skips the deferred saveConfig).                                *)
(*                                                                         *)
(* A Go string is modelled as a sequence of chunks; a chunk is a run of    *)
(* valid UTF-8 text or the single byte XFC, which is no valid UTF-8.       *)
(* Indices are zero-based as in the code; Keys[i] of the code is           *)
(* Keys[i + 1] here.                                                       *)
(***************************************************************************)
EXTENDS Integers, Sequences, FiniteSets, TLC

\* ------------------------------------------------------------------ bounds
MaxKeys == 2
MaxGenerated == 2

\* ----------------------------------------------------------------- strings
XFC == "\\xFC"
REPL == "\\uFFFD"

Home == <<"/", "home/u">>
Cwd == <<"/", "work">>

Join(dir, elem) == dir \o <<"/">> \o elem

IsAbs(path) == Len(path) > 0 /\ path[1] = "/"

Abs(path) == IF IsAbs(path) THEN path ELSE Join(Cwd, path)

ConfigPath == Join(Home, <<".gss">>)

SSHConfigPath == Join(Join(Home, <<".ssh">>), <<"config">>)

\* encoding/json writes a string coerced to valid UTF-8: every invalid byte
\* becomes U+FFFD.
ToValidUTF8(s) == [i \in 1..Len(s) |-> IF s[i] = XFC THEN REPL ELSE s[i]]

\* ------------------------------------------------- the store and its JSON
NilMap == [nil |-> TRUE, kv |-> {}]

MakeMap == [nil |-> FALSE, kv |-> {}]

MapSet(m, k, v) == [nil |-> FALSE, kv |-> {p \in m.kv : p[1] # k} \cup {<<k, v>>}]

SSHKeyPairConfig(name, priv, pub, frag, git) ==
    [Name |-> name, PrivateKeyPath |-> priv, PublicKeyPath |-> pub,
     SSHConfig |-> frag, GitConfig |-> git]

\* The in-memory SSHConfig that main constructs: only the two paths are set,
\* so Keys is the nil slice and ActiveKey the zero value of int.
NewConfig == [Keys |-> <<>>, ActiveKey |-> 0]

NoFile == [exists |-> FALSE, keys |-> <<>>, active_key |-> 0]

MarshalMap(m) ==
    [null |-> m.nil, kv |-> {<<p[1], ToValidUTF8(p[2])>> : p \in m.kv}]

UnmarshalMap(j) == [nil |-> j.null, kv |-> j.kv]

MarshalKey(k) ==
    [name |-> ToValidUTF8(k.Name),
     private_key_path |-> ToValidUTF8(k.PrivateKeyPath),
     public_key_path |-> ToValidUTF8(k.PublicKeyPath),
     ssh_config |-> ToValidUTF8(k.SSHConfig),
     git_config |-> MarshalMap(k.GitConfig)]

UnmarshalKey(j) ==
    SSHKeyPairConfig(j.name, j.private_key_path, j.public_key_path, j.ssh_config,
                     UnmarshalMap(j.git_config))

Marshal(c) ==
    [exists |-> TRUE,
     keys |-> [i \in 1..Len(c.Keys) |-> MarshalKey(c.Keys[i])],
     active_key |-> c.ActiveKey]

Unmarshal(data, c) ==
    [Keys |-> [i \in 1..Len(data.keys) |-> UnmarshalKey(data.keys[i])],
     ActiveKey |-> data.active_key]

\* loadConfig: a missing file gives the empty slice and leaves every other
\* field of the receiver as main constructed it.
loadConfig(data, c) ==
    IF ~data.exists THEN [c EXCEPT !.Keys = <<>>] ELSE Unmarshal(data, c)

saveConfig(c) == Marshal(c)

\* ------------------------------------------------------------------- list
listKeyPairs_OneBased(c) ==
    [i \in 1..Len(c.Keys) |->
        [index |-> i - 1, active |-> (i = c.ActiveKey), key |-> c.Keys[i]]]

\* listKeyPairs prints one entry per record, in order, with the active mark.
listKeyPairs(c) ==
    [i \in 1..Len(c.Keys) |->
        [index |-> i - 1, active |-> (i - 1 = c.ActiveKey), key |-> c.Keys[i]]]

\* --------------------------------------------------------------- generate
Exists(fs, path) == path \in DOMAIN fs

KeyFileName(baseName, i) ==
    IF i = 0 THEN baseName \o <<".key">>
    ELSE baseName \o <<"_", ToString(i), ".key">>

RECURSIVE ScanFreePath(_, _, _, _, _)
ScanFreePath(fs, configPath, baseName, privPath, i) ==
    IF ~Exists(fs, privPath) THEN privPath
    ELSE ScanFreePath(fs, configPath, baseName,
                      Join(configPath, KeyFileName(baseName, i)), i + 1)

getUniqueFilePaths_NoScan(fs, configPath, baseName) ==
    LET privPath == Join(configPath, KeyFileName(baseName, 0))
    IN  <<privPath, privPath \o <<".pub">>>>

getUniqueFilePaths(fs, configPath, baseName) ==
    LET privPath == ScanFreePath(fs, configPath, baseName,
                                 Join(configPath, KeyFileName(baseName, 0)), 1)
    IN  <<privPath, privPath \o <<".pub">>>>

\* ------------------------------------------------------------ file system
PEM(type) == <<"-----BEGIN ", type, "-----", "base64", "-----END ", type, "-----">>

\* pem.Decode finds a block when the data holds a BEGIN line.
pemDecode(data) == IF Len(data) >= 3 /\ data[1] = "-----BEGIN " THEN <<data[2]>> ELSE <<>>

PubKeyData == <<"ssh-rsa AAAA">>

FragmentData == <<"Host example\n  Port 22">>

WriteFile(fs, path, data) == (path :> data) @@ fs

\* Files that exist before the tool is first run: a key pair, a certificate in
\* PEM form, a file that is no key, and an SSH fragment, all in the working
\* directory.
InitialFiles ==
    (Join(Cwd, <<"id_rsa">>) :> PEM("RSA PRIVATE KEY")) @@
    (Join(Cwd, <<"cert">>) :> PEM("CERTIFICATE")) @@
    (Join(Cwd, <<"id_rsa.pub">>) :> PubKeyData) @@
    (Join(Cwd, <<"notes">>) :> <<"plain text">>) @@
    (Join(Cwd, <<"frag">>) :> FragmentData)

\* ---------------------------------------------------- command line inputs
GenNames == {<<>>, <<"w">>}

ImportPrivPaths == {<<"id_rsa">>, <<"notes">>, <<"missing">>}

ImportPubPaths == {<<"id_rsa.pub">>}

ImportFragPaths == {<<"frag">>}

ImportNames == {<<"imp">>}

\* All the ways an import can name its files: a certificate as the private key,
\* a public key or a fragment that does not exist, no fragment at all.
ImportPrivPathsAll == ImportPrivPaths \cup {<<"cert">>}

ImportPubPathsAll == ImportPubPaths \cup {<<"missing.pub">>}

ImportFragPathsAll == ImportFragPaths \cup {<<>>, <<"nofrag">>}

GitEmails == {<<"e@x">>}

\* A user name typed on a Latin-1 terminal: the byte 0xFC is its u-umlaut.
GitNames == {<<"J", XFC, "rgen">>}

Scopes == {"global", "Local"}

ToLower(s) == IF s = "Local" THEN "local" ELSE s

FailingSets == {{}, {"core.sshCommand"}}

\* No git invocation fails, one fails, all fail.
FailingSetsAll == {{}, {"user.email"}, {"core.sshCommand", "user.email", "user.name"}}

\* -i values and terminal lines: <<>> is "not given" / "not a number".
IndexArgs == {<<>>, <<0>>}

IndexLines == {<<>>} \cup {<<n>> : n \in -1..MaxKeys}

Confirmations == {"y", "n"}

SwitchArgs == [i : IndexArgs, s : Scopes]

DeleteArgs == [i : IndexArgs, f : BOOLEAN]

\* A switch without -i, in either scope.
SwitchArgsPrompt == [i : {<<>>}, s : Scopes]

\* Two runs of the program that may overlap in time.
Procs == {"p", "q"}

\* A run that has not begun: main has constructed config and not yet loaded.
Idle == [pc |-> "idle", c |-> NewConfig]

VARIABLES configFile, files, sshConfigFile, last, procs

vars == <<configFile, files, sshConfigFile, last, procs>>

\* What the last run left to observe: the exit status, the message that ended
\* it, the in-memory store the deferred saveConfig wrote (<<>> when it did not
\* run), the index the command chose (<<>> when it chose none), and what the
\* command printed or invoked.
Result(cmd, exit, msg) ==
    [cmd |-> cmd, exit |-> exit, msg |-> msg, note |-> "", saved |-> <<>>,
     interactive |-> FALSE, chosen |-> <<>>, shown |-> <<>>, git |-> {}]

NoSSHConfig == [exists |-> FALSE, content |-> <<>>]

Init ==
    /\ configFile = NoFile
    /\ files = InitialFiles
    /\ sshConfigFile = NoSSHConfig
    /\ last = Result("none", 0, "")
    /\ procs = [p \in Procs |-> Idle]

\* main, lines 46-57: construct, load.
Loaded == loadConfig(configFile, NewConfig)

Exit_StillSaves(r) ==
    /\ last' = r
    /\ configFile' = saveConfig(Loaded)
    /\ UNCHANGED <<files, sshConfigFile, procs>>

\* A run that ends in os.Exit: the deferred saveConfig does not run.
Exit(r) ==
    /\ last' = r
    /\ UNCHANGED <<configFile, files, sshConfigFile, procs>>

\* A run in which main returns: the deferred saveConfig writes the store.
Return(r, c) ==
    /\ configFile' = saveConfig(c)
    /\ last' = [r EXCEPT !.saved = <<c>>]
    /\ UNCHANGED procs

\* ------------------------------------------------------- generate command
IsKeyFile(path) == Len(path) > 0 /\ path[Len(path)] = ".key"

NumGenerated(fs) == Cardinality({path \in DOMAIN fs : IsKeyFile(path)})

generateKeyPair(c, fs, name) ==
    LET paths == getUniqueFilePaths(fs, ConfigPath, name)
        absPrivPath == Abs(paths[1])
        absPubPath == Abs(paths[2])
    IN  [c |-> [c EXCEPT !.Keys = Append(@, SSHKeyPairConfig(name, absPrivPath, absPubPath,
                                                             <<>>, MakeMap))],
         fs |-> WriteFile(WriteFile(fs, absPrivPath, PEM("RSA PRIVATE KEY")),
                          absPubPath, PubKeyData)]

Generate(name) ==
    LET c == Loaded IN
    IF name = <<>>
    THEN Exit(Result("generate", 1, "usage"))
    ELSE /\ Len(c.Keys) < MaxKeys
         /\ NumGenerated(files) < MaxGenerated
         /\ LET r == generateKeyPair(c, files, name) IN
            /\ files' = r.fs
            /\ Return(Result("generate", 0, "Generated"), r.c)
            /\ UNCHANGED sshConfigFile

\* --------------------------------------------------------- import command
Failed(c, msg) == [ok |-> FALSE, c |-> c, msg |-> msg]

importKeyPair_NoPubCheck(c, fs, privPath, pubPath, name, sshConfigPath, gitConfig) ==
    IF ~Exists(fs, privPath) THEN Failed(c, "Private key not found")
    ELSE IF pemDecode(fs[privPath]) = <<>> THEN Failed(c, "Invalid private key format")
    ELSE IF sshConfigPath # <<>> /\ ~Exists(fs, sshConfigPath)
    THEN Failed(c, "SSH config file not found")
    ELSE [ok |-> TRUE,
          c |-> [c EXCEPT !.Keys = Append(@, SSHKeyPairConfig(name, privPath, pubPath,
                                                              sshConfigPath, gitConfig))],
          msg |-> "Imported"]

importKeyPair(c, fs, privPath, pubPath, name, sshConfigPath, gitConfig) ==
    IF ~Exists(fs, privPath) THEN Failed(c, "Private key not found")
    ELSE IF ~Exists(fs, pubPath) THEN Failed(c, "Public key not found")
    ELSE IF pemDecode(fs[privPath]) = <<>> THEN Failed(c, "Invalid private key format")
    ELSE IF sshConfigPath # <<>> /\ ~Exists(fs, sshConfigPath)
    THEN Failed(c, "SSH config file not found")
    ELSE [ok |-> TRUE,
          c |-> [c EXCEPT !.Keys = Append(@, SSHKeyPairConfig(name, privPath, pubPath,
                                                              sshConfigPath, gitConfig))],
          msg |-> "Imported"]

importCmd(c, fs, privPath, pubPath, name, sshConfigPath, email, nameGit) ==
    IF privPath = <<>> \/ pubPath = <<>> \/ email = <<>> \/ nameGit = <<>> \/ name = <<>>
    THEN Failed(c, "usage")
    ELSE LET absSSHConfigPath == IF sshConfigPath # <<>> THEN Abs(sshConfigPath) ELSE <<>>
             gitConfig == MapSet(MapSet(MakeMap, "user.email", email), "user.name", nameGit)
         IN  importKeyPair(c, fs, Abs(privPath), Abs(pubPath), name, absSSHConfigPath,
                           gitConfig)

Import(privPath, pubPath, name, sshConfigPath, email, nameGit) ==
    LET c == Loaded
        r == importCmd(c, files, privPath, pubPath, name, sshConfigPath, email, nameGit)
    IN  IF ~r.ok
        THEN Exit(Result("import", 1, r.msg))
        ELSE /\ Len(c.Keys) < MaxKeys
             /\ Return(Result("import", 0, r.msg), r.c)
             /\ UNCHANGED <<files, sshConfigFile>>

\* ----------------------------------------------------------- list command
List ==
    LET c == Loaded IN
    /\ Return([Result("list", 0, "") EXCEPT !.shown = listKeyPairs(c)], c)
    /\ UNCHANGED <<files, sshConfigFile>>

\* No subcommand or an unknown one: usage and os.Exit(1).
Usage == Exit(Result("usage", 1, "usage"))

\* ------------------------------------------------ switch: index selection
\* The flags a FlagSet reports as set: none before Parse has run, the ones on
\* the command line after it.
FlagsBeforeParse(args) == {}

FlagsAfterParse(args) == IF args.i # <<>> THEN {"i"} ELSE {}

\* switchCmd and deleteCmd call Visit on the FlagSet before they call Parse.
indexProvided(args) == "i" \in FlagsBeforeParse(args)

\* strconv.Atoi of the trimmed terminal line.
Atoi(line) == IF line = <<>> THEN [err |-> TRUE, n |-> 0] ELSE [err |-> FALSE, n |-> line[1]]

\* The index the command works on: the -i value when the command saw the flag,
\* else the number typed at the prompt.
ChosenIndex(args, line) == IF indexProvided(args) THEN args.i[1] ELSE Atoi(line).n

InRange(c, chosenIndex) == ~(chosenIndex < 0 \/ chosenIndex >= Len(c.Keys))

\* ----------------------------------------------------------- switch steps
predefinedConfig(key) == <<"IdentityFile ">> \o key.PrivateKeyPath

configContent(key, fs) ==
    IF key.SSHConfig # <<>>
    THEN predefinedConfig(key) \o <<"\n">> \o fs[Abs(key.SSHConfig)]
    ELSE predefinedConfig(key)

WriteSSHConfig_Appends(old, content) ==
    [exists |-> TRUE, content |-> old.content \o content]

\* os.WriteFile truncates: the new content replaces the old.
WriteSSHConfig(old, content) == [exists |-> TRUE, content |-> content]

gitConfigFile(scope) ==
    IF ToLower(scope) = "local" THEN <<".", "/", ".git", "/", "config">>
    ELSE Join(Home, <<".gitconfig">>)

sshCommand == <<"ssh -F ">> \o SSHConfigPath

\* The map the switch applies: key.GitConfig with core.sshCommand set.  key is a
\* copy of the record, the map is shared with the record in config.Keys.
AppliedGitConfig(key) ==
    IF key.GitConfig.nil THEN key.GitConfig
    ELSE MapSet(key.GitConfig, "core.sshCommand", sshCommand)

GitInvocations_StopsAtFailure(key, scope, failing) ==
    IF key.GitConfig.nil THEN {}
    ELSE LET all == {[target |-> IF scope = "global" THEN <<"--global">>
                                 ELSE <<"--file">> \o gitConfigFile(scope),
                      key |-> p[1], value |-> p[2], ok |-> p[1] \notin failing] :
                     p \in AppliedGitConfig(key).kv}
         IN  IF \A g \in all : g.ok THEN all ELSE {g \in all : ~g.ok}

\* One git invocation per entry; failing lists the keys whose invocation fails.
GitInvocations(key, scope, failing) ==
    IF key.GitConfig.nil THEN {}
    ELSE {[target |-> IF scope = "global" THEN <<"--global">>
                      ELSE <<"--file">> \o gitConfigFile(scope),
           key |-> p[1], value |-> p[2], ok |-> p[1] \notin failing] :
          p \in AppliedGitConfig(key).kv}

SwitchTo_NoKeyCheck(c, fs, chosenIndex) ==
    IF ~InRange(c, chosenIndex) THEN Failed(c, "Invalid index")
    ELSE LET c1 == [c EXCEPT !.ActiveKey = chosenIndex]
             key == c.Keys[chosenIndex + 1]
         IN  IF key.SSHConfig # <<>> /\ ~Exists(fs, Abs(key.SSHConfig))
             THEN Failed(c1, "SSH config file not found")
             ELSE [ok |-> TRUE,
                   c |-> [c1 EXCEPT !.Keys[chosenIndex + 1].GitConfig = AppliedGitConfig(key)],
                   msg |-> "Successfully switched"]

\* switchCmd from line 200 on, for an index already chosen.
SwitchTo(c, fs, chosenIndex) ==
    IF ~InRange(c, chosenIndex) THEN Failed(c, "Invalid index")
    ELSE LET c1 == [c EXCEPT !.ActiveKey = chosenIndex]
             key == c.Keys[chosenIndex + 1]
         IN  IF ~Exists(fs, key.PrivateKeyPath) THEN Failed(c1, "Private key not found")
             ELSE IF key.SSHConfig # <<>> /\ ~Exists(fs, Abs(key.SSHConfig))
             THEN Failed(c1, "SSH config file not found")
             ELSE [ok |-> TRUE,
                   c |-> [c1 EXCEPT !.Keys[chosenIndex + 1].GitConfig = AppliedGitConfig(key)],
                   msg |-> "Successfully switched"]

Switch(args, line, failing) ==
    LET c == Loaded
        provided == indexProvided(args)
        r0 == [Result("switch", 1, "") EXCEPT !.interactive = ~provided]
    IN  IF ~provided /\ Len(c.Keys) = 0 THEN Exit([r0 EXCEPT !.msg = "No key pairs found"])
        ELSE IF ~provided /\ Atoi(line).err THEN Exit([r0 EXCEPT !.msg = "Invalid input"])
        ELSE LET chosenIndex == ChosenIndex(args, line)
                 r == SwitchTo(c, files, chosenIndex)
                 r1 == [r0 EXCEPT !.msg = r.msg, !.chosen = <<chosenIndex>>]
             IN  IF ~r.ok THEN Exit(r1)
                 ELSE LET key == c.Keys[chosenIndex + 1] IN
                      /\ sshConfigFile' = WriteSSHConfig(sshConfigFile, configContent(key, files))
                      /\ Return([r1 EXCEPT !.exit = 0,
                                           !.git = GitInvocations(key, args.s, failing)], r.c)
                      /\ UNCHANGED files

\* ----------------------------------------------------------- delete steps
RemoveAt_Last(keys, chosenIndex) == SubSeq(keys, 1, Len(keys) - 1)

RemoveAt(keys, chosenIndex) ==
    SubSeq(keys, 1, chosenIndex) \o SubSeq(keys, chosenIndex + 2, Len(keys))

AdjustActiveKey_KeepsPointer(activeKey, chosenIndex, remaining) ==
    IF activeKey = chosenIndex THEN (IF remaining > 0 THEN activeKey ELSE -1)
    ELSE IF activeKey > chosenIndex THEN activeKey - 1
    ELSE activeKey

AdjustActiveKey_NoShift(activeKey, chosenIndex, remaining) ==
    IF activeKey = chosenIndex THEN (IF remaining > 0 THEN 0 ELSE -1)
    ELSE activeKey

AdjustActiveKey(activeKey, chosenIndex, remaining) ==
    IF activeKey = chosenIndex THEN (IF remaining > 0 THEN 0 ELSE -1)
    ELSE IF activeKey > chosenIndex THEN activeKey - 1
    ELSE activeKey

\* deleteCmd from line 401 on.
DeleteAt(c, chosenIndex) ==
    LET keys == RemoveAt(c.Keys, chosenIndex)
    IN  [Keys |-> keys, ActiveKey |-> AdjustActiveKey(c.ActiveKey, chosenIndex, Len(keys))]

\* The generated SSH config is cleared when the active record was the last one.
ClearsSSHConfig(c, chosenIndex) == c.ActiveKey = chosenIndex /\ Len(c.Keys) = 1

\* What deleteCmd prints when the deleted record was the active one.
DeleteNote(c, chosenIndex) ==
    IF c.ActiveKey # chosenIndex THEN ""
    ELSE IF Len(c.Keys) > 1 THEN "Active key was deleted. Switched to key pair"
    ELSE "No key pairs remaining. Active key unset."

Delete(args, line, confirmation) ==
    LET c == Loaded
        provided == indexProvided(args)
        r0 == Result("delete", 1, "")
        r1 == [r0 EXCEPT !.interactive = ~provided]
    IN  IF Len(c.Keys) = 0 THEN Exit([r0 EXCEPT !.msg = "No key pairs found"])
        ELSE IF ~provided /\ Atoi(line).err THEN Exit([r1 EXCEPT !.msg = "Invalid input"])
        ELSE LET chosenIndex == ChosenIndex(args, line)
                 r2 == [r1 EXCEPT !.chosen = <<chosenIndex>>]
             IN
             IF ~InRange(c, chosenIndex) THEN Exit([r2 EXCEPT !.msg = "Invalid index"])
             ELSE IF ~args.f /\ confirmation \notin {"y", "yes"}
             THEN Exit([r2 EXCEPT !.exit = 0, !.msg = "Deletion cancelled"])
             ELSE /\ sshConfigFile' = IF ClearsSSHConfig(c, chosenIndex)
                                      THEN WriteSSHConfig(sshConfigFile, <<>>)
                                      ELSE sshConfigFile
                  /\ Return([r2 EXCEPT !.exit = 0, !.msg = "Successfully deleted",
                                       !.note = DeleteNote(c, chosenIndex)],
                            DeleteAt(c, chosenIndex))
                  /\ UNCHANGED files

\* ------------------------------------------------------------ environment
HandWritten == <<"Host *\n  User me">>

\* Between two runs the user writes ~/.ssh/config by hand.
EditSSHConfig ==
    /\ sshConfigFile.content # HandWritten
    /\ sshConfigFile' = [exists |-> TRUE, content |-> HandWritten]
    /\ last' = Result("edit", 0, "")
    /\ UNCHANGED <<configFile, files, procs>>

\* Between two runs the user removes a key file or a fragment that a record of
\* the store names.
ReferencedFiles ==
    {configFile.keys[i].private_key_path : i \in 1..Len(configFile.keys)} \cup
    {Abs(configFile.keys[i].ssh_config) :
        i \in {j \in 1..Len(configFile.keys) : configFile.keys[j].ssh_config # <<>>}}

RemoveFile(path) ==
    /\ path \in ReferencedFiles \cap DOMAIN files
    /\ files' = [q \in DOMAIN files \ {path} |-> files[q]]
    /\ last' = Result("remove", 0, "")
    /\ UNCHANGED <<configFile, sshConfigFile, procs>>

\* ------------------------------------- the earlier version of the program
\* The earlier version (flags -g, -i, -l, -s) keeps records of three fields in
\* the same ~/.gss/config.json.  A field it does not write is read by the
\* current version as the zero value: ssh_config "" and git_config nil.
SSHKeyPair(name, priv, pub) == [Name |-> name, PrivateKeyPath |-> priv, PublicKeyPath |-> pub]

Earlier_loadConfig(data) ==
    IF ~data.exists THEN [Keys |-> <<>>, ActiveKey |-> 0]
    ELSE [Keys |-> [i \in 1..Len(data.keys) |->
                      SSHKeyPair(data.keys[i].name, data.keys[i].private_key_path,
                                 data.keys[i].public_key_path)],
          ActiveKey |-> data.active_key]

Earlier_saveConfig(c) ==
    [exists |-> TRUE,
     keys |-> [i \in 1..Len(c.Keys) |->
                 [name |-> ToValidUTF8(c.Keys[i].Name),
                  private_key_path |-> ToValidUTF8(c.Keys[i].PrivateKeyPath),
                  public_key_path |-> ToValidUTF8(c.Keys[i].PublicKeyPath),
                  ssh_config |-> <<>>,
                  git_config |-> [null |-> TRUE, kv |-> {}]]],
     active_key |-> c.ActiveKey]

\* gss -g name of the earlier version: generate a key pair, append, save.
Earlier_Generate(name) ==
    LET c == Earlier_loadConfig(configFile)
        paths == getUniqueFilePaths(files, ConfigPath, name)
    IN  /\ Len(c.Keys) < MaxKeys
        /\ NumGenerated(files) < MaxGenerated
        /\ files' = WriteFile(WriteFile(files, paths[1], PEM("RSA PRIVATE KEY")),
                              paths[2], PubKeyData)
        /\ configFile' = Earlier_saveConfig(
                             [c EXCEPT !.Keys = Append(@, SSHKeyPair(name, paths[1], paths[2]))])
        /\ last' = Result("earlier", 0, "Generated")
        /\ UNCHANGED <<sshConfigFile, procs>>

\* ------------------------------------------------------- overlapping runs
\* A run of main in three steps: loadConfig, the command working on the store
\* in memory (and on the files it writes), the deferred saveConfig.  Nothing
\* in main, loadConfig or saveConfig locks config.json, so the steps of two
\* runs interleave freely.
WriteStore_Merges(old, data) ==
    [data EXCEPT !.keys = @ \o SelectSeq(old.keys,
                                         LAMBDA k : \A i \in 1..Len(data.keys) : data.keys[i] # k)]

\* os.WriteFile replaces the whole of config.json.
WriteStore(old, data) == data

P_Load(p) ==
    /\ procs[p].pc = "idle"
    /\ procs' = [procs EXCEPT ![p] = [pc |-> "loaded", c |-> loadConfig(configFile, NewConfig)]]
    /\ UNCHANGED <<configFile, files, sshConfigFile, last>>

\* os.Exit: the run ends without saving.
P_Exit(p) == procs' = [procs EXCEPT ![p] = Idle]

P_Generate(p, name) ==
    /\ procs[p].pc = "loaded"
    /\ Len(procs[p].c.Keys) < MaxKeys
    /\ NumGenerated(files) < MaxGenerated
    /\ LET r == generateKeyPair(procs[p].c, files, name) IN
       /\ files' = r.fs
       /\ procs' = [procs EXCEPT ![p] = [pc |-> "ran", c |-> r.c]]
    /\ UNCHANGED <<configFile, sshConfigFile, last>>

P_Switch(p, line) ==
    /\ procs[p].pc = "loaded"
    /\ LET c == procs[p].c IN
       IF Len(c.Keys) = 0 \/ Atoi(line).err
       THEN P_Exit(p) /\ UNCHANGED sshConfigFile
       ELSE LET r == SwitchTo(c, files, Atoi(line).n) IN
            IF ~r.ok THEN P_Exit(p) /\ UNCHANGED sshConfigFile
            ELSE /\ sshConfigFile' = WriteSSHConfig(sshConfigFile,
                                                    configContent(c.Keys[Atoi(line).n + 1], files))
                 /\ procs' = [procs EXCEPT ![p] = [pc |-> "ran", c |-> r.c]]
    /\ UNCHANGED <<configFile, files, last>>

\* main returns: the deferred saveConfig writes what this run holds in memory.
P_Save(p) ==
    /\ procs[p].pc = "ran"
    /\ configFile' = WriteStore(configFile, saveConfig(procs[p].c))
    /\ last' = [Result("save", 0, p) EXCEPT !.saved = <<procs[p].c>>]
    /\ procs' = [procs EXCEPT ![p] = Idle]
    /\ UNCHANGED <<files, sshConfigFile>>

\* ---------------------------------------------------------- specification
Next ==
    \/ \E name \in GenNames : Generate(name)
    \/ \E privPath \in ImportPrivPaths, pubPath \in ImportPubPaths, name \in ImportNames,
          sshConfigPath \in ImportFragPaths, email \in GitEmails, nameGit \in GitNames :
          Import(privPath, pubPath, name, sshConfigPath, email, nameGit)
    \/ List
    \/ \E args \in SwitchArgs, line \in IndexLines, failing \in FailingSets :
          Switch(args, line, failing)
    \/ \E args \in DeleteArgs, line \in IndexLines, confirmation \in Confirmations :
          Delete(args, line, confirmation)
    \/ Usage
    \/ EditSSHConfig

Spec == Init /\ [][Next]_vars

\* The five commands alone: nothing but the program writes ~/.ssh/config.
NextCommands ==
    \/ \E name \in GenNames : Generate(name)
    \/ \E privPath \in ImportPrivPaths, pubPath \in ImportPubPaths, name \in ImportNames,
          sshConfigPath \in ImportFragPaths, email \in GitEmails, nameGit \in GitNames :
          Import(privPath, pubPath, name, sshConfigPath, email, nameGit)
    \/ List
    \/ \E args \in SwitchArgs, line \in IndexLines, failing \in FailingSets :
          Switch(args, line, failing)
    \/ \E args \in DeleteArgs, line \in IndexLines, confirmation \in Confirmations :
          Delete(args, line, confirmation)

SpecCommands == Init /\ [][NextCommands]_vars

\* The import command with every kind of path, next to list and delete.
NextImport ==
    \/ \E privPath \in ImportPrivPathsAll, pubPath \in ImportPubPathsAll,
          name \in ImportNames, sshConfigPath \in ImportFragPathsAll,
          email \in GitEmails, nameGit \in GitNames :
          Import(privPath, pubPath, name, sshConfigPath, email, nameGit)
    \/ List
    \/ \E args \in DeleteArgs, line \in IndexLines, confirmation \in Confirmations :
          Delete(args, line, confirmation)

SpecImport == Init /\ [][NextImport]_vars

\* The switch command over every kind of record (generated, imported, written
\* by the earlier version), with key files that disappear and git invocations
\* that fail.
NextSwitch ==
    \/ Generate(<<"w">>)
    \/ \E privPath \in ImportPrivPaths, pubPath \in ImportPubPaths, name \in ImportNames,
          sshConfigPath \in ImportFragPaths, email \in GitEmails, nameGit \in GitNames :
          Import(privPath, pubPath, name, sshConfigPath, email, nameGit)
    \/ Earlier_Generate(<<"w">>)
    \/ \E args \in SwitchArgsPrompt, line \in IndexLines, failing \in FailingSetsAll :
          Switch(args, line, failing)
    \/ \E path \in DOMAIN files : RemoveFile(path)

SpecSwitch == Init /\ [][NextSwitch]_vars

\* Two runs of generate and switch with their steps interleaved.
NextRace ==
    \E p \in Procs :
        \/ P_Load(p)
        \/ P_Generate(p, <<"w">>)
        \/ \E line \in IndexLines : P_Switch(p, line)
        \/ P_Save(p)

SpecRace == Init /\ [][NextRace]_vars

\* ================================================================= claims
ActiveMarks(listing) == {i \in 1..Len(listing) : listing[i].active}

SwitchSucceeded(r) == r.cmd = "switch" /\ r.exit = 0

DeleteSucceeded(r) == r.cmd = "delete" /\ r.exit = 0 /\ r.msg = "Successfully deleted"

\* C1: a successful switch to index i followed by list reports exactly the
\* record at position i as active and every other record as inactive, and in
\* every reachable state list marks at most one record as active.
C1_SwitchThenListMarksOnlyThatRecord ==
    /\ [](Cardinality(ActiveMarks(listKeyPairs(Loaded))) <= 1
          /\ Cardinality(ActiveMarks(last.shown)) <= 1)
    /\ [][(SwitchSucceeded(last) /\ last'.cmd = "list") =>
             /\ last.chosen[1] + 1 \in 1..Len(last'.shown)
             /\ \A j \in 1..Len(last'.shown) :
                   /\ last'.shown[j].index = j - 1
                   /\ last'.shown[j].active <=> (j - 1 = last.chosen[1])]_vars

C1_Witness ==
    /\ last.cmd = "list"
    /\ Len(last.shown) = 2
    /\ ActiveMarks(last.shown) = {2}

\* C2: deleting the record at the active index sets the active index to 0 when
\* at least one record remains and to -1 (unset) when it was the last one.
C2_DeleteActiveRepoints ==
    [][(DeleteSucceeded(last') /\ configFile.active_key = last'.chosen[1]) =>
          configFile'.active_key = (IF Len(configFile'.keys) >= 1 THEN 0 ELSE -1)]_vars

C2_Witness ==
    /\ DeleteSucceeded(last)
    /\ last.note = "Active key was deleted. Switched to key pair"
    /\ last.chosen = <<1>>
    /\ configFile.active_key = 0

\* C3: deleting a record at an index i other than the active index keeps the
\* active pointer on the same record: for i below the active index the index
\* decreases by exactly one, for i above it the index is unchanged, and the
\* record designated active has the same name and key paths before and after.
C3_DeleteOtherKeepsActiveRecord ==
    [][(DeleteSucceeded(last') /\ configFile.active_key # last'.chosen[1]) =>
          LET a == configFile.active_key
              b == configFile'.active_key
          IN  /\ last'.chosen[1] < a => b = a - 1
              /\ last'.chosen[1] > a => b = a
              /\ a \in 0..(Len(configFile.keys) - 1) =>
                    /\ b \in 0..(Len(configFile'.keys) - 1)
                    /\ configFile'.keys[b + 1].name = configFile.keys[a + 1].name
                    /\ configFile'.keys[b + 1].private_key_path =
                          configFile.keys[a + 1].private_key_path
                    /\ configFile'.keys[b + 1].public_key_path =
                          configFile.keys[a + 1].public_key_path]_vars

C3_Witness ==
    /\ DeleteSucceeded(last)
    /\ last.note = ""
    /\ last.chosen = <<0>>
    /\ configFile.active_key = 0
    /\ Len(configFile.keys) = 1

\* C4: a switch or delete whose index is outside 0 <= index < number of records
\* ends with a non-zero exit status and leaves the persisted store as it was.
C4_OutOfRangeIndexLeavesStore ==
    [][(/\ last'.cmd \in {"switch", "delete"}
        /\ \/ Len(configFile.keys) = 0
           \/ /\ last'.chosen # <<>>
              /\ (last'.chosen[1] < 0 \/ last'.chosen[1] >= Len(configFile.keys)))
       => (last'.exit # 0 /\ configFile' = configFile)]_vars

C4_Witness ==
    /\ last.cmd = "switch"
    /\ last.exit = 1
    /\ last.chosen = <<2>>
    /\ Len(configFile.keys) = 2

\* C5: every persisted store has an active index that is -1 (unset) or a valid
\* index into the persisted records.
C5_PersistedActiveIndexValid ==
    configFile.exists =>
        (configFile.active_key = -1
           \/ (0 <= configFile.active_key /\ configFile.active_key < Len(configFile.keys)))

\* C6: when no store file exists, load yields an empty record sequence and an
\* unset active index (-1): no record is active, and a record added afterwards
\* is not shown as active by list as long as no switch has selected it.
C6_MissingFileLoadsUnset ==
    /\ ~configFile.exists => (Loaded.Keys = <<>> /\ Loaded.ActiveKey = -1)
    /\ (last.cmd = "list" /\ ~sshConfigFile.exists) => ActiveMarks(last.shown) = {}

\* C7: a switch or delete invoked with -i <index>, the index of a stored
\* record, does not enter interactive mode and works on the record at exactly
\* that index.
C7_IndexOptionSelectsRecord ==
    [][/\ \A args \in SwitchArgs, line \in IndexLines, failing \in FailingSets :
             (/\ args.i # <<>>
              /\ args.i[1] < Len(configFile.keys)
              /\ last'.cmd = "switch"
              /\ Switch(args, line, failing))
             => (~last'.interactive /\ last'.chosen = args.i)
       /\ \A args \in DeleteArgs, line \in IndexLines, confirmation \in Confirmations :
             (/\ args.i # <<>>
              /\ args.i[1] < Len(configFile.keys)
              /\ last'.cmd = "delete"
              /\ Delete(args, line, confirmation))
             => (~last'.interactive /\ last'.chosen = args.i)]_vars

\* C8: after every successful switch the generated SSH config holds exactly
\* the line "IdentityFile <private key path>" of the newly active record,
\* followed by a newline and the verbatim fragment file content when the
\* record has a fragment, and nothing of what the file held before.
C8_SSHConfigIsRewritten ==
    SwitchSucceeded(last) =>
        LET key == last.saved[1].Keys[last.chosen[1] + 1]
            line == <<"IdentityFile ">> \o key.PrivateKeyPath
        IN  /\ sshConfigFile.exists
            /\ sshConfigFile.content =
                  (IF key.SSHConfig = <<>> THEN line
                   ELSE line \o <<"\n">> \o files[key.SSHConfig])

C8_Witness ==
    /\ SwitchSucceeded(last)
    /\ last.saved[1].Keys[last.chosen[1] + 1].SSHConfig # <<>>
    /\ Len(sshConfigFile.content) > 2

\* The k-th candidate path of generate for a name, and the positions of the
\* generated records of a persisted store.
C9_Candidate(name, k) ==
    IF k = 0 THEN ConfigPath \o <<"/">> \o name \o <<".key">>
    ELSE ConfigPath \o <<"/">> \o name \o <<"_", ToString(k), ".key">>

C9_GeneratedPaths(keys) ==
    {i \in 1..Len(keys) : keys[i].private_key_path[Len(keys[i].private_key_path)] = ".key"}

\* C9: generate picks the first free candidate in the order name.key,
\* name_1.key, name_2.key, ...: the private key path of the new record is no
\* file that already existed and no path of another record, so the paths of
\* generated records are pairwise distinct, and the second generate with the
\* same name gets the suffix _1.
C9_GenerateTakesFirstFreePath ==
    /\ [](\A i, j \in C9_GeneratedPaths(configFile.keys) :
             i # j => configFile.keys[i].private_key_path # configFile.keys[j].private_key_path)
    /\ [][/\ DOMAIN files \subseteq DOMAIN files'
          /\ (last'.cmd = "generate" /\ last'.exit = 0) =>
                LET new == last'.saved[1].Keys[Len(last'.saved[1].Keys)]
                    path == new.PrivateKeyPath
                IN  /\ path \notin DOMAIN files
                    /\ path \in DOMAIN files'
                    /\ \A i \in 1..Len(configFile.keys) :
                          configFile.keys[i].private_key_path # path
                    /\ \E k \in 0..MaxGenerated :
                          /\ path = C9_Candidate(new.Name, k)
                          /\ \A j \in 0..(k - 1) :
                                C9_Candidate(new.Name, j) \in DOMAIN files]_vars

C9_Witness ==
    /\ last.cmd = "generate"
    /\ last.exit = 0
    /\ Len(configFile.keys) = 2
    /\ configFile.keys[1].private_key_path = Join(ConfigPath, <<"w", ".key">>)
    /\ configFile.keys[2].private_key_path = Join(ConfigPath, <<"w", "_", "1", ".key">>)

\* C10: saving a store reached through generate, import, switch and delete and
\* loading the saved file gives back the same store: the same records with the
\* same fields in the same order, the same git settings, the same active index.
C10_SaveThenLoadIsIdentity ==
    last.saved # <<>> => loadConfig(configFile, NewConfig) = last.saved[1]

\* C11: a successful delete of index i removes exactly the record at position
\* i: the count drops by one, the records before i stay where they were, the
\* records after i move down by one position with their content unchanged, and
\* no file on disk (private key, public key, fragment) is removed or modified.
C11_DeleteRemovesOnlyThatRecord ==
    [][DeleteSucceeded(last') =>
          LET i == last'.chosen[1]
              old == configFile.keys
              new == configFile'.keys
          IN  /\ Len(new) = Len(old) - 1
              /\ \A j \in 1..Len(new) : new[j] = (IF j <= i THEN old[j] ELSE old[j + 1])
              /\ files' = files]_vars

C11_Witness ==
    /\ DeleteSucceeded(last)
    /\ last.chosen = <<0>>
    /\ Len(configFile.keys) = 1
    /\ configFile.keys[1].name = <<"imp">>
    /\ Join(ConfigPath, <<"w", ".key">>) \in DOMAIN files

\* C12: an import whose private key path or public key path does not exist, or
\* whose fragment path is given and does not exist, ends with a non-zero exit
\* and leaves the persisted store as it was; an import whose paths all exist
\* and whose key is accepted appends exactly one record at the end, holding
\* the paths importKeyPair was called with, and copies or changes no file.
C12_ImportChecksPathsThenAppends ==
    [][\A privPath \in ImportPrivPathsAll, pubPath \in ImportPubPathsAll,
          name \in ImportNames, sshConfigPath \in ImportFragPathsAll,
          email \in GitEmails, nameGit \in GitNames :
          (last'.cmd = "import"
             /\ Import(privPath, pubPath, name, sshConfigPath, email, nameGit)) =>
             LET priv == Abs(privPath)
                 pub == Abs(pubPath)
                 frag == IF sshConfigPath = <<>> THEN <<>> ELSE Abs(sshConfigPath)
                 missing == \/ priv \notin DOMAIN files
                            \/ pub \notin DOMAIN files
                            \/ (frag # <<>> /\ frag \notin DOMAIN files)
                 accepted == pemDecode(files[priv]) # <<>>
             IN  /\ missing => (last'.exit # 0 /\ configFile' = configFile)
                 /\ (~missing /\ accepted) =>
                       LET n == Len(configFile.keys)
                           new == last'.saved[1].Keys[n + 1]
                       IN  /\ last'.exit = 0
                           /\ Len(last'.saved[1].Keys) = n + 1
                           /\ Len(configFile'.keys) = n + 1
                           /\ SubSeq(configFile'.keys, 1, n) = configFile.keys
                           /\ new.PrivateKeyPath = priv
                           /\ new.PublicKeyPath = pub
                           /\ new.SSHConfig = frag
                           /\ configFile'.keys[n + 1].private_key_path = priv
                           /\ configFile'.keys[n + 1].public_key_path = pub
                           /\ configFile'.keys[n + 1].ssh_config = frag
                           /\ files' = files]_vars

C12_Witness ==
    /\ last.cmd = "import"
    /\ last.exit = 1
    /\ last.msg = "SSH config file not found"
    /\ Len(configFile.keys) = 2
    /\ configFile.keys[1].ssh_config = <<>>
    /\ configFile.keys[2].ssh_config = Join(Cwd, <<"frag">>)
    /\ configFile.keys[2].private_key_path = Join(Cwd, <<"id_rsa">>)

\* The block types the claim counts as private keys.
C13_Recognized == {<<"RSA PRIVATE KEY">>, <<"EC PRIVATE KEY">>, <<"OPENSSH PRIVATE KEY">>}

\* C13: an import appends a record only when the private key file is in a
\* recognized private-key encoding; a file that is no PEM, or a PEM file whose
\* block type is no private-key type, is refused and appends no record.
C13_ImportRefusesUnrecognizedKey ==
    [][(last'.cmd = "import" /\ Len(configFile'.keys) > Len(configFile.keys)) =>
          LET path == configFile'.keys[Len(configFile'.keys)].private_key_path
          IN  pemDecode(files[path]) \in C13_Recognized]_vars

\* C14: a switch applies every entry of the record's git settings by its own
\* invocation, whether or not other invocations failed, and a switch that
\* reached the git settings ends with exit 0 and the chosen index persisted as
\* the active index even when some or all of the invocations failed.
C14_GitFailuresDoNotAbortSwitch ==
    (last.cmd = "switch" /\ last.git # {}) =>
        LET record == last.saved[1].Keys[last.chosen[1] + 1]
            settings == {p[1] : p \in record.GitConfig.kv}
        IN  /\ last.exit = 0
            /\ {g.key : g \in last.git} = settings
            /\ Cardinality(last.git) = Cardinality(settings)
            /\ \A g \in last.git : <<g.key, g.value>> \in record.GitConfig.kv
            /\ configFile.active_key = last.chosen[1]

C14_Witness ==
    /\ SwitchSucceeded(last)
    /\ Cardinality(last.git) = 3
    /\ \A g \in last.git : ~g.ok
    /\ last.chosen = <<1>>
    /\ configFile.active_key = 1

\* C15: every successful switch, whatever the record (generated, imported, or
\* loaded from a store file without git settings), sets core.sshCommand to
\* "ssh -F <generated SSH config path>" in the chosen scope.
C15_SwitchSetsSSHCommand ==
    SwitchSucceeded(last) =>
        \E g \in last.git :
            /\ g.key = "core.sshCommand"
            /\ g.value = <<"ssh -F ">> \o SSHConfigPath

\* C16: list is a pure read: a list command leaves the persisted store file,
\* the records and active index a load gives, the generated SSH config and
\* every other file exactly as they were, also when no store file exists yet.
C16_ListChangesNothing ==
    [][last'.cmd = "list" =>
          /\ configFile' = configFile
          /\ loadConfig(configFile', NewConfig) = loadConfig(configFile, NewConfig)
          /\ sshConfigFile' = sshConfigFile
          /\ files' = files]_vars

C18_Applied(record) ==
    LET line == <<"IdentityFile ">> \o record.PrivateKeyPath
    IN  /\ sshConfigFile.exists
        /\ Len(sshConfigFile.content) >= Len(line)
        /\ SubSeq(sshConfigFile.content, 1, Len(line)) = line

\* C18: in every state reached by generate, import, list, switch and delete
\* from no store file, a record that list reports as active is the one whose
\* private key path the IdentityFile line of the generated SSH config names.
C18_ActiveRecordIsApplied ==
    \A i \in ActiveMarks(listKeyPairs(Loaded)) : C18_Applied(listKeyPairs(Loaded)[i].key)

\* The runs are all over.
C19_AllDone == \A p \in Procs : procs[p].pc = "idle"

\* C19: config.json has no lock: when the steps of two runs interleave, the
\* store left on disk is exactly the store the last run to save held in
\* memory, whatever the other run saved before it (last writer wins, the
\* other run's update can be lost).
C19_LastWriterWins ==
    (C19_AllDone /\ last.cmd = "save") => configFile = saveConfig(last.saved[1])

\* Both runs generated a key pair, both saved, and the store holds one record.
C19_Witness ==
    /\ C19_AllDone
    /\ last.cmd = "save"
    /\ Join(ConfigPath, <<"w", ".key">>) \in DOMAIN files
    /\ Join(ConfigPath, <<"w", "_", "1", ".key">>) \in DOMAIN files
    /\ Len(configFile.keys) = 1
    /\ configFile.keys[1].private_key_path = Join(ConfigPath, <<"w", "_", "1", ".key">>)

====
